---- MODULE Spec2Model ----
(***************************************************************************)
(* The optimistic task cache of the Vitasoft client (TasksPage): the four  *)
(* mutations create / update / delete / toggle over the ['tasks'] query    *)
(* data, their snapshot / optimistic apply / rollback callbacks, the       *)
(* task-list refresh they schedule, and the task controller of the server  *)
(* they talk to.                                                           *)
(***************************************************************************)
EXTENDS Integers, Sequences, FiniteSets, TLC

VARIABLES
    server,       \* rows of the server's Task table, in insertion order
    nextId,       \* the next autoincrement id of the Task table
    collection,   \* queryClient data of ['tasks'] (undefined is read as [])
    query,        \* fetch state of the ['tasks'] query
    ops,          \* every mutation started so far, in start order; besides the
                  \* mutation's own state a record keeps its history: the data
                  \* before and after its optimistic apply, the data its
                  \* rollback left, what its settlement scheduled
    now,          \* Date.now(), in clock ticks
    activeTask,   \* TasksPage state: <<>> is null, <<t>> the task of the open
                  \* edit or delete modal (the handlers read its id alone)
    activityInvalidations, \* invalidateQueries(['activity']) calls so far
    pendingCreateValues,     \* TasksPage state: <<>> is null, <<v>> the values
                             \* held back by the duplicate warning
    similarTasksForWarning,  \* TasksPage state: the tasks the warning lists
    isDuplicateWarningOpen,  \* TasksPage state
    token,        \* authStore.token: NULL when logged out
    user,         \* authStore.user: NULL when logged out
    isAuthenticated,         \* authStore.isAuthenticated
    isHandlingUnauthorized,  \* the flag of the response interceptor of api
    pathname,     \* window.location.pathname
    call          \* the last call observed from outside: the handler or
                  \* function, its arguments and what it returned

\* the duplicate-warning state of TasksPage
dialog == <<pendingCreateValues, similarTasksForWarning, isDuplicateWarningOpen>>

\* the rest of the session: the auth store besides its token, the
\* interceptor's flag, the location
session == <<user, isAuthenticated, isHandlingUnauthorized, pathname>>

vars == <<server, nextId, collection, query, ops, now, activeTask,
          activityInvalidations, dialog, token, session, call>>

---------------------------------------------------------------------------
(* Bounds of the model *)

MaxOps == 2

MaxTick == 1

MaxTitleLen == 3

MaxHour == 100

MaxTasks == 1

MaxSummaryTasks == 3

MaxViewTasks == 2

---------------------------------------------------------------------------
(* Constants of the program *)

\* the threshold 0.6 of the word-overlap rule, in tenths
SIMILARITY_WORD_OVERLAP_THRESHOLD == 6

DUE_SOON_HOURS == 48

\* an instant of DueTaskNotification is a count of hours
HoursPerDay == 24

---------------------------------------------------------------------------
(* Values *)

NULL == "NULL"

\* A title is a sequence of one-character strings.
TitleA == <<"a">>

TitleB == <<"b", " ">>

\* Date.now() of a browser is a millisecond count far above every
\* autoincrement id the Task table hands out in a run.
Epoch == 100 * (MaxOps + 2)

\* A run starts with either one or two tasks already stored for the user.
SeedRows ==
    { <<[id |-> 1, title |-> TitleA, description |-> NULL, completed |-> FALSE,
         createdAt |-> 1, dueDate |-> NULL, priority |-> "medium"]>>,
      <<[id |-> 1, title |-> TitleA, description |-> NULL, completed |-> FALSE,
         createdAt |-> 1, dueDate |-> NULL, priority |-> "medium"],
        [id |-> 2, title |-> TitleB, description |-> "d", completed |-> TRUE,
         createdAt |-> 2, dueDate |-> "2024-01-10T00:00:00.000Z", priority |-> "high"]>> }

\* TaskFormValues submitted through the create form.
CreateInputs ==
    { [title |-> TitleB, description |-> "", priority |-> "low", dueDate |-> ""] }

\* The variables of updateMutation: the four form fields sent by
\* handleEditSubmit, or the completed flag alone.
UpdateInputs ==
    { [title |-> TitleB, description |-> "", priority |-> "high", dueDate |-> "2024-01-10"],
      [completed |-> TRUE] }

\* a title of spaces alone
TitleBlank == <<" ">>

\* a title that differs from TitleB in case and spacing alone
TitleB2 == <<"B">>

\* TaskFormValues the create and edit forms are submitted with: valid ones,
\* one without a title, one whose due date is no date
FormInputs ==
    { [title |-> TitleB, description |-> "", priority |-> "low", dueDate |-> ""],
      [title |-> TitleB2, description |-> "d", priority |-> "high", dueDate |-> "2024-01-10"],
      [title |-> TitleBlank, description |-> "", priority |-> "low", dueDate |-> ""],
      [title |-> TitleB, description |-> "", priority |-> "low", dueDate |-> "2024-13-45"] }

\* the characters of the titles given to the duplicate matcher
Chars == {"a", "A", "b", " "}

\* the words of the longer titles given to it
WordChars == {"a", "b", "c"}

\* the titles given to the duplicate matcher: every string of up to
\* MaxTitleLen characters, every title of three one-letter words, and two
\* titles with a run of spaces inside
Titles ==
    UNION { [1..n -> Chars] : n \in 0..MaxTitleLen }
    \cup { <<x, " ", y, " ", z>> : x \in WordChars, y \in WordChars, z \in WordChars }
    \cup { <<"A", " ", " ", "b">>, <<" ", "a", " ", "b">> }

\* the instants groupUrgentTasks is called at: the first hour of a day, an
\* hour in its middle, its last hour
NowHours == {HoursPerDay, HoursPerDay + 13, 2 * HoursPerDay - 1}

\* a task as DueTaskNotification reads it; its due date <<>> (null) or <<h>>,
\* the instant h
UrgencyTasks ==
    [id : {1}, dueDate : {<<>>} \cup {<<h>> : h \in 0..MaxHour}, completed : BOOLEAN]

\* the task lists groupUrgentTasks is called with
TaskLists ==
    UNION { [1..n -> UrgencyTasks] : n \in 1..MaxTasks }

---------------------------------------------------------------------------
(* Pure helpers *)

Has(r, f) == f \in DOMAIN r

Ids(s) == { s[i].id : i \in 1..Len(s) }

RECURSIVE TrimLeft(_)
TrimLeft(s) ==
    IF s # <<>> /\ Head(s) = " " THEN TrimLeft(Tail(s)) ELSE s

RECURSIVE TrimRight(_)
TrimRight(s) ==
    IF s # <<>> /\ s[Len(s)] = " " THEN TrimRight(SubSeq(s, 1, Len(s) - 1)) ELSE s

\* String.prototype.trim
Trim(s) == TrimRight(TrimLeft(s))

\* new Date(value).toISOString() on the date strings of the model
ToISOString(d) ==
    IF d = "2024-01-10" THEN "2024-01-10T00:00:00.000Z" ELSE d

\* !Number.isNaN(new Date(value).getTime()) on the strings of the model
IsDate(value) == value \in {"2024-01-10", "2024-01-10T00:00:00.000Z"}

\* parseDueDate of the task controller followed by the DTO's toISOString
parseDueDate(value) ==
    IF value = NULL \/ value = "" THEN NULL
    ELSE IF ~IsDate(value) THEN NULL
    ELSE ToISOString(value)

\* the controllers answer 400 to a due date that is given and is no date
BadDueDate(body) ==
    /\ Has(body, "dueDate")
    /\ body.dueDate # NULL /\ body.dueDate # ""
    /\ parseDueDate(body.dueDate) = NULL

---------------------------------------------------------------------------
(* The duplicate matcher of TasksPage *)

\* String.prototype.toLowerCase on one character of the model
Lower(c) ==
    CASE c = "A" -> "a" [] c = "B" -> "b" [] c = "C" -> "c" [] OTHER -> c

toLowerCase(s) == [k \in 1..Len(s) |-> Lower(s[k])]

\* replace(/\s+/g, ' '): every run of spaces becomes one space
RECURSIVE Collapse(_)
Collapse(s) ==
    IF Len(s) < 2 THEN s
    ELSE IF s[1] = " " /\ s[2] = " " THEN Collapse(Tail(s))
    ELSE <<s[1]>> \o Collapse(Tail(s))

\* a faulty variant: the case of the letters is kept
normalizeTitleKeepsCase(s) == Collapse(Trim(s))

normalizeTitle(s) == Collapse(Trim(toLowerCase(s)))

\* String.prototype.includes
includes(a, b) ==
    \E i \in 0..(Len(a) - Len(b)) : SubSeq(a, i + 1, i + Len(b)) = b

\* the length of the word a string starts with
RECURSIVE WordLen(_)
WordLen(s) ==
    IF s = <<>> \/ Head(s) = " " THEN 0 ELSE 1 + WordLen(Tail(s))

\* split(' ').filter(Boolean): the words of a string, in order, repeats kept
RECURSIVE Words(_)
Words(s) ==
    IF s = <<>> THEN <<>>
    ELSE IF Head(s) = " " THEN Words(Tail(s))
    ELSE <<SubSeq(s, 1, WordLen(s))>> \o Words(SubSeq(s, WordLen(s) + 1, Len(s)))

Min(m, n) == IF m <= n THEN m ELSE n

areTitlesSimilar(newTitle, existingTitle) ==
    LET a == normalizeTitle(newTitle)
        b == normalizeTitle(existingTitle)
        wordsA == Words(a)
        wordsB == Words(b)
        matchCount ==
            Len(SelectSeq(wordsA, LAMBDA w : \E k \in 1..Len(wordsB) : wordsB[k] = w))
    IN
    IF a = <<>> THEN FALSE
    ELSE IF a = b THEN TRUE
    ELSE IF Len(a) >= 2 /\ Len(b) >= 2 /\ (includes(a, b) \/ includes(b, a)) THEN TRUE
    ELSE IF Len(wordsA) = 0 \/ Len(wordsB) = 0 THEN FALSE
    ELSE 10 * matchCount >=
           SIMILARITY_WORD_OVERLAP_THRESHOLD * Min(Len(wordsA), Len(wordsB))

\* a faulty variant: no task is ever found similar
findSimilarTasksNone(newTitle, tasks) == <<>>

findSimilarTasks(newTitle, tasks) ==
    IF normalizeTitle(newTitle) = <<>> THEN <<>>
    ELSE SelectSeq(tasks, LAMBDA task : areTitlesSimilar(newTitle, task.title))

---------------------------------------------------------------------------
(* The urgency groups of DueTaskNotification *)

\* date-fns startOfDay and endOfDay (the last instant of the day)
startOfDay(d) == d - (d % HoursPerDay)

endOfDay(d) == startOfDay(d) + HoursPerDay - 1

addHours(d, h) == d + h

\* a faulty variant: a task is overdue as soon as its instant is before now
getDueGroupFromNow(dueDate, at) ==
    IF dueDate < at THEN "overdue"
    ELSE IF startOfDay(at) <= dueDate /\ dueDate <= endOfDay(at) THEN "dueToday"
    ELSE "dueSoon"

getDueGroup(dueDate, at) ==
    LET d == dueDate
        startToday == startOfDay(at)
        endToday == endOfDay(at)
        in48h == addHours(at, DUE_SOON_HOURS)
    IN
    IF d < startToday THEN "overdue"
    ELSE IF startToday <= d /\ d <= endToday THEN "dueToday"
    ELSE IF d > endToday /\ (d < in48h \/ d = in48h) THEN "dueSoon"
    ELSE "dueSoon"

\* the tasks of one group, in the order of the list
TasksOfGroup(tasks, at, group) ==
    SelectSeq(tasks, LAMBDA task :
                /\ ~(task.completed \/ task.dueDate = <<>>)
                /\ getDueGroup(task.dueDate[1], at) = group)

groupUrgentTasks(tasks, at) ==
    LET overdue == TasksOfGroup(tasks, at, "overdue")
        dueToday == TasksOfGroup(tasks, at, "dueToday")
        dueSoon == TasksOfGroup(tasks, at, "dueSoon")
    IN
    (IF overdue # <<>> THEN <<[group |-> "overdue", tasks |-> overdue]>> ELSE <<>>)
      \o (IF dueToday # <<>> THEN <<[group |-> "dueToday", tasks |-> dueToday]>> ELSE <<>>)
      \o (IF dueSoon # <<>> THEN <<[group |-> "dueSoon", tasks |-> dueSoon]>> ELSE <<>>)

---------------------------------------------------------------------------
(* The derived views of TasksPage: the summary cards, the list shown *)

\* A task as the views read it: description <<>> (null) or <<d>>, the string
\* d; dueDate <<>> (null) or <<h>>, the instant h in hours.

\* the due dates of the tasks given to the views: none, the last hour of the
\* first day, the first hour of the second, an hour within it, the first
\* hour of the third
ViewDues ==
    {<<>>, <<HoursPerDay - 1>>, <<HoursPerDay>>, <<HoursPerDay + 5>>, <<2 * HoursPerDay>>}

\* the task lists taskSummary is called with
SummaryLists ==
    UNION { [1..n -> [id : {1}, completed : BOOLEAN, dueDate : ViewDues]] :
              n \in 1..MaxSummaryTasks }

\* the stored tasks of the user whose views are rendered: the k-th created
\* has id k and createdAt k; a task titled "a" has a description, one titled
\* "B" has none
ViewRows ==
    UNION { { [k \in 1..n |->
                 [id |-> k, title |-> f[k].title,
                  description |-> IF f[k].title = TitleA THEN <<TitleB>> ELSE <<>>,
                  completed |-> f[k].completed, createdAt |-> k,
                  dueDate |-> f[k].dueDate, priority |-> f[k].priority]] :
              f \in [1..n -> [title : {TitleA, TitleB2},
                              completed : BOOLEAN,
                              dueDate : {<<>>, <<HoursPerDay - 1>>},
                              priority : {"low", "high"}]] } :
            n \in 1..MaxViewTasks }

\* the UI controls of the list: searchQuery, filterStatus, sortBy
Controls ==
    [searchQuery : {<<>>, <<"b">>},
     filterStatus : {"all", "active", "completed"},
     sortBy : {"date", "priority", "title"}]

\* the instant the views are rendered at
RenderHours == {HoursPerDay + 13}

\* a faulty variant: a task is overdue as soon as its instant is before now
taskSummaryFromNow(rawTasks, at) ==
    [total |-> Len(rawTasks),
     completed |-> Len(SelectSeq(rawTasks, LAMBDA t : t.completed)),
     pending |-> Len(SelectSeq(rawTasks, LAMBDA t : ~t.completed)),
     overdue |-> Len(SelectSeq(rawTasks, LAMBDA t :
                         IF t.completed \/ t.dueDate = <<>> THEN FALSE
                         ELSE t.dueDate[1] < at))]

\* taskSummary at the instant at (every due date of the model is a date)
taskSummary(rawTasks, at) ==
    LET todayStart == startOfDay(at) IN
    [total |-> Len(rawTasks),
     completed |-> Len(SelectSeq(rawTasks, LAMBDA t : t.completed)),
     pending |-> Len(SelectSeq(rawTasks, LAMBDA t : ~t.completed)),
     overdue |-> Len(SelectSeq(rawTasks, LAMBDA t :
                         IF t.completed \/ t.dueDate = <<>> THEN FALSE
                         ELSE t.dueDate[1] < todayStart))]

priorityOrder(priority) ==
    CASE priority = "low" -> 0 [] priority = "medium" -> 1 [] priority = "high" -> 2

\* the place of a character in the collation of localeCompare at sensitivity
\* 'base': case is ignored
Collation(c) ==
    CASE Lower(c) = " " -> 0 [] Lower(c) = "a" -> 1 [] Lower(c) = "b" -> 2 [] OTHER -> 3

\* a.title.localeCompare(b.title, undefined, {sensitivity: 'base'}) < 0
RECURSIVE localeBefore(_, _)
localeBefore(a, b) ==
    IF b = <<>> THEN FALSE
    ELSE IF a = <<>> THEN TRUE
    ELSE IF Collation(Head(a)) # Collation(Head(b)) THEN Collation(Head(a)) < Collation(Head(b))
    ELSE localeBefore(Tail(a), Tail(b))

\* the comparator of the sort: a goes before b
Before(a, b, sortBy) ==
    CASE sortBy = "date" -> a.createdAt > b.createdAt
      [] sortBy = "priority" -> priorityOrder(a.priority) > priorityOrder(b.priority)
      [] sortBy = "title" -> localeBefore(a.title, b.title)

\* Array.prototype.sort, which is stable: the first of the least elements,
\* then the rest sorted
RECURSIVE sort(_, _)
sort(list, sortBy) ==
    IF list = <<>> THEN <<>>
    ELSE LET IsLeast(k) == \A j \in 1..Len(list) : ~Before(list[j], list[k], sortBy)
             m == CHOOSE k \in 1..Len(list) :
                    IsLeast(k) /\ \A j \in 1..(k - 1) : ~IsLeast(j)
         IN <<list[m]>> \o sort(SubSeq(list, 1, m - 1) \o SubSeq(list, m + 1, Len(list)), sortBy)

filteredAndSortedTasks(rawTasks, controls) ==
    LET q == toLowerCase(controls.searchQuery)
        matchSearch(task) ==
            \/ Trim(controls.searchQuery) = <<>>
            \/ includes(toLowerCase(task.title), q)
            \/ task.description # <<>> /\ includes(toLowerCase(task.description[1]), q)
        matchStatus(task) ==
            \/ controls.filterStatus = "all"
            \/ controls.filterStatus = "active" /\ ~task.completed
            \/ controls.filterStatus = "completed" /\ task.completed
        list == SelectSeq(rawTasks, LAMBDA task : matchSearch(task) /\ matchStatus(task))
    IN sort(list, controls.sortBy)

\* a faulty variant: the list is sorted in place, in the data itself
rawTasksSortedInPlace(rawTasks, controls) == sort(rawTasks, controls.sortBy)

\* the data after the views were computed: filter builds a new array and
\* sort works on a copy of it, groupUrgentTasks pushes into arrays of its own
rawTasksAfterRender(rawTasks, controls) == rawTasks

---------------------------------------------------------------------------
(* The server: task.controller.ts over the Task table *)

RECURSIVE InsertDesc(_, _)
InsertDesc(t, s) ==
    IF s = <<>> THEN <<t>>
    ELSE IF Head(s).createdAt >= t.createdAt THEN <<Head(s)>> \o InsertDesc(t, Tail(s))
    ELSE <<t>> \o s

RECURSIVE SortDesc(_)
SortDesc(s) ==
    IF s = <<>> THEN <<>>
    ELSE InsertDesc(s[Len(s)], SortDesc(SubSeq(s, 1, Len(s) - 1)))

\* GET /tasks: findMany ordered by createdAt descending
getTasks == SortDesc(server)

\* the row POST /tasks stores for a request body
CreatedRow(body) ==
    [id |-> nextId, title |-> Trim(body.title), description |-> body.description,
     completed |-> FALSE, createdAt |-> now, dueDate |-> parseDueDate(body.dueDate),
     priority |-> body.priority]

\* the row PUT /tasks/:id stores over an existing row
UpdatedRow(existing, body) ==
    [existing EXCEPT
       !.title = IF Has(body, "title") THEN Trim(body.title) ELSE @,
       !.description = IF Has(body, "description") /\ body.description # NULL
                       THEN body.description ELSE @,
       !.completed = IF Has(body, "completed") THEN body.completed ELSE @,
       !.priority = IF Has(body, "priority") THEN body.priority ELSE @,
       !.dueDate = IF Has(body, "dueDate") THEN parseDueDate(body.dueDate) ELSE @]

\* the body createMutation.mutationFn posts
CreateBody(values) ==
    [title |-> values.title,
     description |-> IF values.description = "" THEN NULL ELSE values.description,
     priority |-> values.priority,
     dueDate |-> IF values.dueDate = "" THEN NULL ELSE values.dueDate]

\* the payload updateMutation.mutationFn puts
UpdateBody(values) ==
    [f \in DOMAIN values |->
       IF f = "dueDate" /\ values[f] = "" THEN NULL ELSE values[f]]

\* the payload toggleMutation.mutationFn puts for the task it was given
ToggleBody(task) == [completed |-> ~task.completed]

Answer(i, st, response) == ops' = [ops EXCEPT ![i].st = st, ![i].response = response]

\* POST /tasks reaches the server
createTask(i) ==
    /\ ops[i].st = "sent"
    /\ ops[i].kind = "create"
    /\ LET body == CreateBody(ops[i].variables) IN
       IF Trim(body.title) = <<>> \/ BadDueDate(body)
       THEN Answer(i, "rejected", <<>>) /\ UNCHANGED <<server, nextId>>
       ELSE /\ server' = Append(server, CreatedRow(body))
            /\ nextId' = nextId + 1
            /\ Answer(i, "ok", <<CreatedRow(body)>>)
    /\ UNCHANGED <<collection, query, now, activeTask,
                   activityInvalidations, dialog, token, session>>

\* PUT /tasks/:id reaches the server (from updateMutation or toggleMutation)
updateTask(i) ==
    /\ ops[i].st = "sent"
    /\ ops[i].kind \in {"update", "toggle"}
    /\ LET taskId == ops[i].variables.id
           body == IF ops[i].kind = "update" THEN UpdateBody(ops[i].variables.values)
                   ELSE ToggleBody(ops[i].variables)
       IN
       IF \/ Has(body, "title") /\ Trim(body.title) = <<>>
          \/ BadDueDate(body)
          \/ taskId \notin Ids(server)
       THEN Answer(i, "rejected", <<>>) /\ UNCHANGED server
       ELSE /\ server' = [k \in 1..Len(server) |->
                            IF server[k].id = taskId THEN UpdatedRow(server[k], body)
                            ELSE server[k]]
            /\ Answer(i, "ok", <<>>)
    /\ UNCHANGED <<nextId, collection, query, now, activeTask,
                   activityInvalidations, dialog, token, session>>

\* DELETE /tasks/:id reaches the server
deleteTask(i) ==
    /\ ops[i].st = "sent"
    /\ ops[i].kind = "delete"
    /\ LET taskId == ops[i].variables.id IN
       IF taskId \notin Ids(server)
       THEN Answer(i, "rejected", <<>>) /\ UNCHANGED server
       ELSE /\ server' = SelectSeq(server, LAMBDA r: r.id # taskId)
            /\ Answer(i, "ok", <<>>)
    /\ UNCHANGED <<nextId, collection, query, now, activeTask,
                   activityInvalidations, dialog, token, session>>

---------------------------------------------------------------------------
(* The query cache of ['tasks'] *)

\* what TasksPage renders as task cards: nothing while loading or on error
Rendered == IF query.status = "success" THEN collection ELSE <<>>

\* a faulty variant: the fetch in flight is left running
cancelQueriesKeepsFetch(q) == q

\* queryClient.cancelQueries: a fetch in flight is dropped, its state reverted
cancelQueries(q) == [q EXCEPT !.phase = "idle", !.result = <<>>]

\* a faulty variant: a fetch already in flight is left running
invalidateKeepsFetch(q) ==
    IF q.phase = "idle" THEN [q EXCEPT !.phase = "sent", !.result = <<>>] ELSE q

\* queryClient.invalidateQueries on the mounted query: a new fetch starts,
\* replacing one already in flight
invalidateQueries(q) == [q EXCEPT !.phase = "sent", !.result = <<>>]

\* a faulty variant: the fetched list is merged into the data
FetchedDataMerged(data, result) ==
    result \o SelectSeq(data, LAMBDA t: t.id \notin Ids(result))

\* the data after a fetch succeeds: the fetched list
FetchedData(data, result) == result

\* a faulty variant: a failed fetch clears the data
FailedDataCleared(data) == <<>>

\* the data after a fetch fails: the data as it was
FailedData(data) == data

InFlight == {"sent", "ok", "rejected"}

Settled == {"success", "error"}

\* history: a fetch ended, for the mutations settled before it
Refreshed(how) ==
    [i \in 1..Len(ops) |->
       IF ops[i].st \in Settled /\ (how = "success" \/ ops[i].refreshed = "no")
       THEN [ops[i] EXCEPT !.refreshed = how] ELSE ops[i]]

\* the GET /tasks of the fetch in flight is answered by the server
RefreshServe ==
    /\ query.phase = "sent"
    /\ query' = [query EXCEPT !.phase = "got", !.result = getTasks]
    /\ UNCHANGED <<server, nextId, collection, ops, now, activeTask,
                   activityInvalidations, dialog, token, session>>

\* the answer arrives: it becomes the data
RefreshSuccess ==
    /\ query.phase = "got"
    /\ collection' = FetchedData(collection, query.result)
    /\ query' = [phase |-> "idle", result |-> <<>>, status |-> "success"]
    /\ ops' = Refreshed("success")
    /\ UNCHANGED <<server, nextId, now, activeTask, activityInvalidations, dialog, token, session>>

\* the fetch fails (request or answer lost, retries exhausted)
RefreshError ==
    /\ query.phase \in {"sent", "got"}
    /\ collection' = FailedData(collection)
    /\ query' = [phase |-> "idle", result |-> <<>>, status |-> "error"]
    /\ ops' = Refreshed("error")
    /\ UNCHANGED <<server, nextId, now, activeTask, activityInvalidations, dialog, token, session>>

---------------------------------------------------------------------------
(* The mutations of TasksPage *)

\* a faulty variant: an empty description and an empty due date are kept
optimisticTaskKeepsEmpty(values) ==
    [id |-> now, title |-> values.title, description |-> values.description,
     completed |-> FALSE, createdAt |-> now, dueDate |-> values.dueDate,
     priority |-> values.priority]

\* the optimistic task of createMutation.onMutate
optimisticTask(values) ==
    [id |-> now, title |-> values.title,
     description |-> IF values.description = "" THEN NULL ELSE values.description,
     completed |-> FALSE, createdAt |-> now,
     dueDate |-> IF values.dueDate = "" THEN NULL ELSE values.dueDate,
     priority |-> values.priority]

\* a faulty variant: the completed flag of the variables is not applied
UpdateNextWithoutCompleted(previousTasks, id, values) ==
    [k \in 1..Len(previousTasks) |->
        LET task == previousTasks[k] IN
        IF task.id = id
        THEN [task EXCEPT
                !.title = IF Has(values, "title") THEN values.title ELSE @,
                !.description = IF Has(values, "description") THEN values.description ELSE @,
                !.priority = IF Has(values, "priority") THEN values.priority ELSE @,
                !.dueDate = IF Has(values, "dueDate")
                            THEN (IF values.dueDate = "" THEN NULL ELSE values.dueDate)
                            ELSE @]
        ELSE task]

\* nextTasks of updateMutation.onMutate
UpdateNext(previousTasks, id, values) ==
    [k \in 1..Len(previousTasks) |->
        LET task == previousTasks[k] IN
        IF task.id = id
        THEN [task EXCEPT
                !.title = IF Has(values, "title") THEN values.title ELSE @,
                !.description = IF Has(values, "description") THEN values.description ELSE @,
                !.completed = IF Has(values, "completed") THEN values.completed ELSE @,
                !.priority = IF Has(values, "priority") THEN values.priority ELSE @,
                !.dueDate = IF Has(values, "dueDate")
                            THEN (IF values.dueDate = "" THEN NULL ELSE values.dueDate)
                            ELSE @]
        ELSE task]

\* a faulty variant: the task at the head of the list is removed
DeleteNextHead(previousTasks, task) ==
    IF previousTasks = <<>> THEN <<>> ELSE Tail(previousTasks)

\* nextTasks of deleteMutation.onMutate
DeleteNext(previousTasks, task) == SelectSeq(previousTasks, LAMBDA t: t.id # task.id)

\* nextTasks of toggleMutation.onMutate
ToggleNext(previousTasks, task) ==
    [k \in 1..Len(previousTasks) |->
        LET t == previousTasks[k] IN
        IF t.id = task.id THEN [t EXCEPT !.completed = ~t.completed] ELSE t]

\* a faulty variant: the snapshot is the array the apply writes into
snapshotWritten(data, nextTasks) == nextTasks

\* previousTasks of onMutate: the array getQueryData returns. nextTasks is
\* built as a new array (spread, map, filter), so the array the snapshot
\* refers to is never written.
snapshot(data, nextTasks) == data

\* a faulty variant: the request is sent, the data is not yet changed
MutateSendsFirst(kind, variables, nextTasks, callbacks) ==
    /\ collection' = collection
    /\ query' = [cancelQueries(query) EXCEPT !.status = "success"]
    /\ ops' = Append(ops,
                     [kind |-> kind, variables |-> variables, previousTasks |-> collection,
                      st |-> "sent", response |-> <<>>, callbacks |-> callbacks,
                      toastError |-> 0, toastSuccess |-> 0,
                      before |-> collection, applied |-> nextTasks, rolledBack |-> <<>>,
                      scheduled |-> FALSE, refreshed |-> "no",
                      inFlightAtStart |-> {i \in 1..Len(ops) : ops[i].st \in InFlight},
                      fetchAtStart |-> query.phase])

\* onMutate of all four hooks: cancel the fetch, snapshot the data, install
\* nextTasks; then mutationFn sends the request. The history of the record
\* also keeps the phase the fetch was in when the mutation started.
Mutate(kind, variables, nextTasks, callbacks) ==
    /\ collection' = nextTasks
    /\ query' = [cancelQueries(query) EXCEPT !.status = "success"]
    /\ ops' = Append(ops,
                     [kind |-> kind, variables |-> variables,
                      previousTasks |-> snapshot(collection, nextTasks),
                      st |-> "sent", response |-> <<>>, callbacks |-> callbacks,
                      toastError |-> 0, toastSuccess |-> 0,
                      before |-> collection, applied |-> nextTasks, rolledBack |-> <<>>,
                      scheduled |-> FALSE, refreshed |-> "no",
                      inFlightAtStart |-> {i \in 1..Len(ops) : ops[i].st \in InFlight},
                      fetchAtStart |-> query.phase])

\* createMutation.mutate with the callbacks of doCreateTask
doCreateTask(values) ==
    /\ Mutate("create", values, Append(collection, optimisticTask(values)), TRUE)
    /\ UNCHANGED <<server, nextId, now, activeTask, activityInvalidations, dialog, token, session>>

\* toggleMutation.mutate, given no callbacks
handleToggle(task) ==
    /\ Mutate("toggle", task, ToggleNext(collection, task), FALSE)
    /\ UNCHANGED <<server, nextId, now, activeTask, activityInvalidations, dialog, token, session>>

openEditModal(task) ==
    /\ activeTask' = <<[id |-> task.id]>>
    /\ UNCHANGED <<server, nextId, collection, query, ops, now, activityInvalidations, dialog, token, session>>

openDeleteModal(task) ==
    /\ activeTask' = <<[id |-> task.id]>>
    /\ UNCHANGED <<server, nextId, collection, query, ops, now, activityInvalidations, dialog, token, session>>

\* a faulty variant: every due date passes
isDueDateValidAlways(value) == TRUE

\* isDueDateValid: a blank due date is none, any other has to be a date
isDueDateValid(value) == value \in {"", " "} \/ IsDate(value)

\* formValues.title.trim() is not empty
TitleGiven(values) == Trim(values.title) # <<>>

\* the early returns of handleCreateSubmit and handleEditSubmit on the form
\* values (variables without a title or a due date come from no form)
Returns(values) ==
    \/ Has(values, "title") /\ ~TitleGiven(values)
    \/ Has(values, "dueDate") /\ ~isDueDateValid(values.dueDate)

\* handleCreateSubmit: return on invalid values; hold the values back and open
\* the warning when a task of the data has a similar title; else create
handleCreateSubmit(values) ==
    LET tasks == collection
        similar == findSimilarTasks(values.title, tasks)
    IN
    IF Returns(values)
    THEN UNCHANGED <<server, nextId, collection, query, ops, now, activeTask,
                     activityInvalidations, dialog, token, session>>
    ELSE IF Len(similar) > 0
    THEN /\ pendingCreateValues' = <<values>>
         /\ similarTasksForWarning' = similar
         /\ isDuplicateWarningOpen' = TRUE
         /\ UNCHANGED <<server, nextId, collection, query, ops, now, activeTask,
                        activityInvalidations, token, session>>
    ELSE doCreateTask(values)

handleCreateAnyway ==
    IF pendingCreateValues = <<>>
    THEN UNCHANGED <<server, nextId, collection, query, ops, now, activeTask,
                     activityInvalidations, dialog, token, session>>
    ELSE doCreateTask(pendingCreateValues[1])

handleCancelDuplicateWarning ==
    /\ isDuplicateWarningOpen' = FALSE
    /\ pendingCreateValues' = <<>>
    /\ similarTasksForWarning' = <<>>
    /\ UNCHANGED <<server, nextId, collection, query, ops, now, activeTask,
                   activityInvalidations, token, session>>

\* handleEditSubmit: return without a task or on invalid values; else
\* updateMutation.mutate with the callbacks of handleEditSubmit
handleEditSubmit(values) ==
    IF activeTask = <<>> \/ Returns(values)
    THEN UNCHANGED <<server, nextId, collection, query, ops, now, activeTask,
                     activityInvalidations, dialog, token, session>>
    ELSE /\ Mutate("update", [id |-> activeTask[1].id, values |-> values],
                   UpdateNext(collection, activeTask[1].id, values), TRUE)
         /\ UNCHANGED <<server, nextId, now, activeTask, activityInvalidations,
                        dialog, token, session>>

\* handleConfirmDelete: return without a task; else deleteMutation.mutate
\* with the callbacks of handleConfirmDelete
handleConfirmDelete ==
    /\ activeTask # <<>>
    /\ Mutate("delete", activeTask[1], DeleteNext(collection, activeTask[1]), TRUE)
    /\ UNCHANGED <<server, nextId, now, activeTask, activityInvalidations, dialog, token, session>>

\* the task a mutation is about: the optimistic task of a create, else the
\* task whose id its variables carry
Target(op) ==
    IF op.kind = "create" THEN op.applied[Len(op.applied)].id ELSE op.variables.id

\* a faulty variant: the failed change is forgotten, the data is left as it is
onErrorKeepsData(i, data) == data

\* a faulty variant: only the task of the failed mutation is put back
onErrorRestoresTarget(i, data) ==
    SelectSeq(data, LAMBDA t: t.id # Target(ops[i]))
      \o SelectSeq(ops[i].previousTasks, LAMBDA t: t.id = Target(ops[i]))

\* onError of all four hooks: the data becomes the snapshot of the context
onError(i, data) == ops[i].previousTasks

\* a faulty variant: the settlement invalidates the activity log alone
onSettledActivityOnly(q, error) ==
    /\ query' = q
    /\ activityInvalidations' = activityInvalidations + 1

\* a faulty variant: only a successful mutation is followed by a refresh
onSettledOnSuccessOnly(q, error) ==
    /\ query' = IF error THEN q ELSE invalidateQueries(q)
    /\ activityInvalidations' = activityInvalidations + 1

\* a faulty variant: the settlement leaves the activity log alone
onSettledTasksOnly(q, error) ==
    /\ query' = invalidateQueries(q)
    /\ activityInvalidations' = activityInvalidations

\* a faulty variant: the activity log is invalidated after a success alone
onSettledActivityOnSuccess(q, error) ==
    /\ query' = invalidateQueries(q)
    /\ activityInvalidations' = IF error THEN activityInvalidations
                                ELSE activityInvalidations + 1

\* onSettled of all four hooks, whatever the outcome
onSettled(q, error) ==
    /\ query' = invalidateQueries(q)
    /\ activityInvalidations' = activityInvalidations + 1

\* the request of mutation i is answered 2xx: onSuccess of mutate(), onSettled
MutationSuccess(i) ==
    /\ ops[i].st = "ok"
    /\ onSettled(query, FALSE)
    /\ ops' = [ops EXCEPT ![i].st = "success",
                          ![i].toastSuccess = IF ops[i].callbacks THEN @ + 1 ELSE @,
                          ![i].scheduled = (query'.phase = "sent")]
    /\ IF ops[i].kind = "create"
       THEN /\ isDuplicateWarningOpen' = FALSE
            /\ pendingCreateValues' = <<>>
            /\ similarTasksForWarning' = <<>>
       ELSE UNCHANGED dialog
    /\ UNCHANGED <<server, nextId, collection, now, activeTask, token, session>>

\* the request of mutation i fails (lost on the way, rejected by the server,
\* or its answer lost): onError of the hook, onError of mutate(), onSettled
MutationError(i) ==
    /\ ops[i].st \in InFlight
    /\ collection' = onError(i, collection)
    /\ onSettled([query EXCEPT !.status = "success"], TRUE)
    /\ ops' = [ops EXCEPT ![i].st = "error",
                          ![i].toastError = IF ops[i].callbacks THEN @ + 1 ELSE @,
                          ![i].rolledBack = <<collection'>>,
                          ![i].scheduled = (query'.phase = "sent")]
    /\ UNCHANGED <<server, nextId, now, activeTask, dialog, token, session>>

Tick ==
    /\ now < Epoch + MaxTick
    /\ now' = now + 1
    /\ UNCHANGED <<server, nextId, collection, query, ops, activeTask,
                   activityInvalidations, dialog, token, session>>

---------------------------------------------------------------------------

(* The session: authStore, LoginPage, the route guards, the interceptor *)

\* the users who log in
Emails == {"ann", "bob"}

\* the paths of the router the model visits
Paths == {"/login", "/register", "/tasks", "/profile"}

\* isAuthPage of the interceptor
isAuthPage(path) == path \in {"/login", "/register"}

\* the error responses the interceptor is handed: a status, the url of the
\* request, the message of the body
Responses ==
    [status : {400, 401},
     url : {"/tasks", "/api/auth/login", "/api/auth/change-password"},
     message : {"Unauthorized", "Invalid credentials", "Current password is incorrect"}]

\* authStore.logout: token and user are dropped. No caller of it touches the
\* query cache: the data of ['tasks'] stays where it is. RequireAuth sends
\* the protected page to /login.
logout ==
    /\ token # NULL
    /\ token' = NULL
    /\ user' = NULL
    /\ isAuthenticated' = FALSE
    /\ pathname' = "/login"
    /\ UNCHANGED <<server, nextId, collection, query, ops, now, activeTask,
                   activityInvalidations, dialog, isHandlingUnauthorized>>

\* LoginPage: authStore.login, then navigate('/tasks'): TasksPage mounts with
\* its initial state, and useQuery(['tasks']) shows the data the cache holds
\* while it fetches
login ==
    /\ token = NULL
    /\ token' = "jwt"
    /\ \E email \in Emails : user' = email
    /\ isAuthenticated' = TRUE
    /\ pathname' = "/tasks"
    /\ activeTask' = <<>>
    /\ pendingCreateValues' = <<>>
    /\ similarTasksForWarning' = <<>>
    /\ isDuplicateWarningOpen' = FALSE
    /\ query' = invalidateQueries(query)
    /\ UNCHANGED <<server, nextId, collection, ops, now, activityInvalidations,
                   isHandlingUnauthorized>>

\* the query client drops the data of ['tasks'] while no page uses it
discardTasks ==
    /\ token = NULL
    /\ collection # <<>>
    /\ collection' = <<>>
    /\ query' = [phase |-> "idle", result |-> <<>>, status |-> "pending"]
    /\ UNCHANGED <<server, nextId, ops, now, activeTask, activityInvalidations,
                   dialog, token, session>>

\* the 401 the interceptor passes on to the component: a wrong current
\* password on the change-password form
isWrongCurrentPassword(response) ==
    /\ response.url = "/api/auth/change-password"
    /\ response.message = "Current password is incorrect"

\* a faulty variant: no 401 is passed on
isWrongCurrentPasswordNever(response) == FALSE

\* the error handler of api.interceptors.response. A 401 that is not the
\* wrong current password, while no other is being handled: logout; away from
\* the auth pages the document is then loaded anew at /login (the module
\* starts over: the flag is false, the query cache and the page state are
\* gone), on an auth page the flag stays set until its timeout.
onResponseError(response) ==
    IF /\ response.status = 401
       /\ ~isWrongCurrentPassword(response)
       /\ ~isHandlingUnauthorized
    THEN /\ token' = NULL
         /\ user' = NULL
         /\ isAuthenticated' = FALSE
         /\ IF isAuthPage(pathname)
            THEN /\ isHandlingUnauthorized' = TRUE
                 /\ UNCHANGED <<pathname, collection, query, activeTask, dialog>>
            ELSE /\ isHandlingUnauthorized' = FALSE
                 /\ pathname' = "/login"
                 /\ collection' = <<>>
                 /\ query' = [phase |-> "idle", result |-> <<>>, status |-> "pending"]
                 /\ activeTask' = <<>>
                 /\ pendingCreateValues' = <<>>
                 /\ similarTasksForWarning' = <<>>
                 /\ isDuplicateWarningOpen' = FALSE
         /\ UNCHANGED <<server, nextId, ops, now, activityInvalidations>>
    ELSE UNCHANGED <<server, nextId, collection, query, ops, now, activeTask,
                     activityInvalidations, dialog, token, session>>

\* the setTimeout of the interceptor, 500 ms after a handled 401
unauthorizedTimeout ==
    /\ isHandlingUnauthorized
    /\ isHandlingUnauthorized' = FALSE
    /\ UNCHANGED <<server, nextId, collection, query, ops, now, activeTask,
                   activityInvalidations, dialog, token, user, isAuthenticated,
                   pathname>>

\* the router: RequireAuth lets a protected path through with a token alone,
\* RedirectIfAuth an auth page without one alone
navigate(path) ==
    /\ path # pathname
    /\ isAuthPage(path) <=> token = NULL
    /\ pathname' = path
    /\ UNCHANGED <<server, nextId, collection, query, ops, now, activeTask,
                   activityInvalidations, dialog, token, user, isAuthenticated,
                   isHandlingUnauthorized>>

---------------------------------------------------------------------------
(* Specifications *)

\* no call is under observation
NoCall == [fn |-> "none"]

\* the state right after TasksPage mounts for a logged-in user whose stored
\* tasks are rows: nothing loaded yet, the first fetch in flight
Start(rows) ==
    /\ server = rows
    /\ nextId = Len(rows) + 1
    /\ collection = <<>>
    /\ query = [phase |-> "sent", result |-> <<>>, status |-> "pending"]
    /\ ops = <<>>
    /\ now = Epoch
    /\ activeTask = <<>>
    /\ activityInvalidations = 0
    /\ pendingCreateValues = <<>>
    /\ similarTasksForWarning = <<>>
    /\ isDuplicateWarningOpen = FALSE
    /\ token = "jwt"
    /\ user = "ann"
    /\ isAuthenticated = TRUE
    /\ isHandlingUnauthorized = FALSE
    /\ pathname = "/tasks"

Init ==
    /\ \E rows \in SeedRows : Start(rows)
    /\ call = NoCall

\* the mutations, the server and the fetch of the task list; no call is
\* under observation
Next ==
    \/ Len(ops) < MaxOps /\ UNCHANGED call
         /\ \E values \in CreateInputs : doCreateTask(values)
    \/ Len(ops) < MaxOps /\ UNCHANGED call
         /\ \E i \in 1..Len(Rendered) : handleToggle(Rendered[i])
    \/ UNCHANGED call /\ \E i \in 1..Len(Rendered) : openEditModal(Rendered[i])
    \/ UNCHANGED call /\ \E i \in 1..Len(Rendered) : openDeleteModal(Rendered[i])
    \/ Len(ops) < MaxOps /\ UNCHANGED call
         /\ \E values \in UpdateInputs : handleEditSubmit(values)
    \/ Len(ops) < MaxOps /\ UNCHANGED call /\ handleConfirmDelete
    \/ UNCHANGED call /\ \E i \in 1..Len(ops) : createTask(i)
    \/ UNCHANGED call /\ \E i \in 1..Len(ops) : updateTask(i)
    \/ UNCHANGED call /\ \E i \in 1..Len(ops) : deleteTask(i)
    \/ UNCHANGED call /\ \E i \in 1..Len(ops) : MutationSuccess(i)
    \/ UNCHANGED call /\ \E i \in 1..Len(ops) : MutationError(i)
    \/ UNCHANGED call /\ RefreshServe
    \/ UNCHANGED call /\ RefreshSuccess
    \/ UNCHANGED call /\ RefreshError
    \/ UNCHANGED call /\ Tick

Spec == Init /\ [][Next]_vars

\* the handler call a step is observed as
Called(fn, values) == call' = [fn |-> fn, values |-> values]

\* The create and edit forms with their validation and the duplicate
\* warning, every handler call observed.
FormNext ==
    \/ /\ Len(ops) < MaxOps
       /\ \E values \in FormInputs :
            handleCreateSubmit(values) /\ Called("handleCreateSubmit", values)
    \/ /\ Len(ops) < MaxOps
       /\ handleCreateAnyway /\ Called("handleCreateAnyway", pendingCreateValues)
    \/ /\ handleCancelDuplicateWarning
       /\ Called("handleCancelDuplicateWarning", pendingCreateValues)
    \/ /\ Len(ops) < MaxOps
       /\ \E values \in FormInputs :
            handleEditSubmit(values) /\ Called("handleEditSubmit", values)
    \/ call' = NoCall /\ \E i \in 1..Len(Rendered) : openEditModal(Rendered[i])
    \/ call' = NoCall /\ \E i \in 1..Len(ops) : createTask(i)
    \/ call' = NoCall /\ \E i \in 1..Len(ops) : updateTask(i)
    \/ call' = NoCall /\ \E i \in 1..Len(ops) : MutationSuccess(i)
    \/ call' = NoCall /\ \E i \in 1..Len(ops) : MutationError(i)
    \/ call' = NoCall /\ RefreshServe
    \/ call' = NoCall /\ RefreshSuccess
    \/ call' = NoCall /\ RefreshError

FormSpec == Init /\ [][FormNext]_vars

\* A burst of creates and toggles, one mutation more than Spec follows, up
\* to the moment the first request is answered.
BurstNext ==
    \/ Len(ops) <= MaxOps /\ UNCHANGED call
         /\ \E values \in CreateInputs : doCreateTask(values)
    \/ Len(ops) <= MaxOps /\ UNCHANGED call
         /\ \E i \in 1..Len(Rendered) : handleToggle(Rendered[i])
    \/ UNCHANGED call /\ RefreshServe
    \/ UNCHANGED call /\ RefreshSuccess
    \/ UNCHANGED call /\ RefreshError
    \/ UNCHANGED call /\ Tick

BurstSpec == Init /\ [][BurstNext]_vars

\* Sessions: the page works while a token is held (RequireAuth), the user
\* logs out and in again.
SessionNext ==
    \/ token # NULL /\ Len(ops) < MaxOps /\ UNCHANGED call
         /\ \E values \in CreateInputs : doCreateTask(values)
    \/ token # NULL /\ UNCHANGED call /\ \E i \in 1..Len(ops) : createTask(i)
    \/ token # NULL /\ UNCHANGED call /\ \E i \in 1..Len(ops) : MutationSuccess(i)
    \/ token # NULL /\ UNCHANGED call /\ \E i \in 1..Len(ops) : MutationError(i)
    \/ token # NULL /\ UNCHANGED call /\ RefreshServe
    \/ token # NULL /\ UNCHANGED call /\ RefreshSuccess
    \/ token # NULL /\ UNCHANGED call /\ RefreshError
    \/ UNCHANGED call /\ logout
    \/ UNCHANGED call /\ login
    \/ UNCHANGED call /\ discardTasks

SessionSpec == Init /\ [][SessionNext]_vars

\* the card toggle i was started from is still on the screen: the page has
\* not rendered since (or the list is leaving under AnimatePresence), so its
\* button still calls handleToggle with the task object toggle i was given
CardOfToggle(i) ==
    /\ i = Len(ops)
    /\ ops[i].kind = "toggle"
    /\ ops[i].st \in InFlight

\* Toggles alone, a second click on the card of the toggle just started
\* included; the server and the fetch of the task list as in Spec.
ToggleClicksNext ==
    \/ Len(ops) < MaxOps /\ UNCHANGED call
         /\ \E i \in 1..Len(Rendered) : handleToggle(Rendered[i])
    \/ Len(ops) < MaxOps /\ UNCHANGED call
         /\ \E i \in 1..Len(ops) : CardOfToggle(i) /\ handleToggle(ops[i].variables)
    \/ UNCHANGED call /\ \E i \in 1..Len(ops) : updateTask(i)
    \/ UNCHANGED call /\ \E i \in 1..Len(ops) : MutationSuccess(i)
    \/ UNCHANGED call /\ \E i \in 1..Len(ops) : MutationError(i)
    \/ UNCHANGED call /\ RefreshServe
    \/ UNCHANGED call /\ RefreshSuccess
    \/ UNCHANGED call /\ RefreshError

ToggleClicksSpec == Init /\ [][ToggleClicksNext]_vars

\* The auth store under the error responses of the API, every response the
\* interceptor handles observed.
AuthNext ==
    \/ \E response \in Responses :
         onResponseError(response) /\ call' = [fn |-> "onResponseError", response |-> response]
    \/ call' = NoCall /\ unauthorizedTimeout
    \/ call' = NoCall /\ login
    \/ call' = NoCall /\ logout
    \/ call' = NoCall /\ \E path \in Paths : navigate(path)

AuthSpec == Init /\ [][AuthNext]_vars

\* the calls of the pure functions under check: a pair of titles for the
\* duplicate matcher, a task list and an instant for the urgency groups;
\* result is <<>> until the function has returned, then <<r>>
FunctionsInit ==
    /\ Start(<<>>)
    /\ \/ \E x \in Titles, y \in Titles :
            call = [fn |-> "areTitlesSimilar", newTitle |-> x, existingTitle |-> y,
                    result |-> <<>>]
       \/ \E tasks \in TaskLists, at \in NowHours :
            call = [fn |-> "groupUrgentTasks", tasks |-> tasks, now |-> at,
                    result |-> <<>>]
       \/ \E tasks \in SummaryLists, at \in NowHours :
            call = [fn |-> "taskSummary", tasks |-> tasks, now |-> at,
                    result |-> <<>>]

evalAreTitlesSimilar ==
    /\ call.fn = "areTitlesSimilar"
    /\ call.result = <<>>
    /\ call' = [call EXCEPT
                  !.result = <<areTitlesSimilar(call.newTitle, call.existingTitle)>>]

evalGroupUrgentTasks ==
    /\ call.fn = "groupUrgentTasks"
    /\ call.result = <<>>
    /\ call' = [call EXCEPT !.result = <<groupUrgentTasks(call.tasks, call.now)>>]

evalTaskSummary ==
    /\ call.fn = "taskSummary"
    /\ call.result = <<>>
    /\ call' = [call EXCEPT !.result = <<taskSummary(call.tasks, call.now)>>]

\* the rest of the state, which a pure function leaves alone
page == <<server, nextId, collection, query, ops, now, activeTask,
          activityInvalidations, dialog, token, session>>

FunctionsNext ==
    \/ evalAreTitlesSimilar /\ UNCHANGED page
    \/ evalGroupUrgentTasks /\ UNCHANGED page
    \/ evalTaskSummary /\ UNCHANGED page

FunctionsSpec == FunctionsInit /\ [][FunctionsNext]_vars

\* the page once the task list of a user has loaded: the data is the list
\* GET /tasks returned, nothing is in flight
Loaded(rows) ==
    /\ server = rows
    /\ nextId = Len(rows) + 1
    /\ collection = SortDesc(rows)
    /\ query = [phase |-> "idle", result |-> <<>>, status |-> "success"]
    /\ ops = <<>>
    /\ now = Epoch
    /\ activeTask = <<>>
    /\ activityInvalidations = 0
    /\ pendingCreateValues = <<>>
    /\ similarTasksForWarning = <<>>
    /\ isDuplicateWarningOpen = FALSE
    /\ token = "jwt"
    /\ user = "ann"
    /\ isAuthenticated = TRUE
    /\ isHandlingUnauthorized = FALSE
    /\ pathname = "/tasks"

ViewsInit ==
    /\ \E rows \in ViewRows : Loaded(rows)
    /\ call = NoCall

\* a render of TasksPage and DueTaskNotification at the instant at under the
\* controls: the three views are computed from the data
render(controls, at) ==
    /\ query.status = "success"
    /\ call' = [fn |-> "render", controls |-> controls, now |-> at,
                rawTasks |-> collection,
                taskSummary |-> taskSummary(collection, at),
                filteredAndSortedTasks |-> filteredAndSortedTasks(collection, controls),
                grouped |-> groupUrgentTasks(collection, at)]
    /\ collection' = rawTasksAfterRender(collection, controls)
    /\ UNCHANGED <<server, nextId, query, ops, now, activeTask,
                   activityInvalidations, dialog, token, session>>

ViewsNext == \E controls \in Controls, at \in RenderHours : render(controls, at)

ViewsSpec == ViewsInit /\ [][ViewsNext]_vars

---------------------------------------------------------------------------
(* Properties *)

\* nothing is in flight: every mutation has settled and no fetch is running
Quiescent ==
    /\ \A i \in 1..Len(ops) : ops[i].st \in Settled
    /\ query.phase = "idle"

\* the tasks of a list that carry an id
TaskOf(s, id) == SelectSeq(s, LAMBDA t: t.id = id)

\* the optimistic change of a mutation to its task is what a list shows
ChangePresent(op, s) ==
    /\ TaskOf(op.applied, Target(op)) # TaskOf(op.before, Target(op))
    /\ TaskOf(s, Target(op)) = TaskOf(op.applied, Target(op))

IdCompleted(s) == [k \in 1..Len(s) |-> [id |-> s[k].id, completed |-> s[k].completed]]

\* C1: a failed mutation of any kind leaves, right after its error
\* handler, exactly the data that was there right before its optimistic
\* apply (same tasks, same fields, same order).
C1_Rollback ==
    \A i \in 1..Len(ops) :
        ops[i].st = "error" => ops[i].rolledBack = <<ops[i].before>>

C1_Witness ==
    \E i, j \in 1..Len(ops) :
        /\ ops[i].kind \in {"create", "delete"}
        /\ ops[j].kind \in {"update", "toggle"}
        /\ \A k \in {i, j} :
             /\ ops[k].st = "error"
             /\ ops[k].applied # ops[k].before
             /\ ops[k].rolledBack = <<ops[k].before>>

\* C2: when every request of a run has succeeded (no mutation failed, the
\* last refresh succeeded) and nothing is in flight any more, the data is
\* the list GET /tasks returns at that moment.
C2_Convergence ==
    (/\ Quiescent
     /\ query.status = "success"
     /\ \A i \in 1..Len(ops) : ops[i].st = "success")
    => collection = getTasks

C2_Witness ==
    /\ Quiescent
    /\ query.status = "success"
    /\ Len(ops) = 2
    /\ ops[1].st = "success" /\ ops[2].st = "success"
    /\ ops[2].inFlightAtStart = {1}
    /\ ops[1].kind # ops[2].kind
    /\ collection = getTasks

\* the scenario of C3: the only mutation of the run is update(1, {completed:
\* true}) started on the data [{id: 1, completed: false}]
C3_Scenario ==
    /\ Len(ops) = 1
    /\ ops[1].kind = "update"
    /\ ops[1].variables = [id |-> 1, values |-> [completed |-> TRUE]]
    /\ IdCompleted(ops[1].before) = <<[id |-> 1, completed |-> FALSE]>>

C4_EveryFailureSignals ==
    \A i \in 1..Len(ops) :
        ops[i].st = "error" =>
            /\ ops[i].rolledBack = <<ops[i].previousTasks>>
            /\ ops[i].toastError >= 1

\* C5: no two tasks of the data ever have the same id (so a provisional id
\* never equals the id of another task of the data).
C5_UniqueIds ==
    \A i, j \in 1..Len(collection) :
        i # j => collection[i].id # collection[j].id

\* C6 as stated: once a create has been confirmed and the refresh scheduled
\* after it has settled, no task of the data carries its provisional id.
C6_ReplacedAfterRefresh ==
    \A i \in 1..Len(ops) :
        (ops[i].kind = "create" /\ ops[i].st = "success" /\ ops[i].refreshed # "no")
        => Target(ops[i]) \notin Ids(collection)

\* C6 as amended: once a create has been confirmed, whenever nothing is in
\* flight and the last refresh succeeded, no task of the data carries its
\* provisional id, and the task with the id the server assigned is in the
\* data as long as the server still stores it.
C6_ReplacedWhenQuiet ==
    (Quiescent /\ query.status = "success") =>
        \A i \in 1..Len(ops) :
            (ops[i].kind = "create" /\ ops[i].st = "success") =>
                /\ Target(ops[i]) \notin Ids(collection)
                /\ ops[i].response[1].id \in Ids(server)
                     => ops[i].response[1].id \in Ids(collection)

C6_Witness ==
    /\ Quiescent
    /\ query.status = "success"
    /\ \E i \in 1..Len(ops) :
         /\ ops[i].kind = "create"
         /\ ops[i].st = "success"
         /\ Target(ops[i]) \notin Ids(collection)
         /\ ops[i].response[1].id \in Ids(collection)

\* C7: every settled mutation, successful or failed, has started a fetch of
\* the task list in its settlement.
C7_SettledSchedulesRefresh ==
    \A i \in 1..Len(ops) : ops[i].st \in Settled => ops[i].scheduled

C7_Witness ==
    \E i, j \in 1..Len(ops) :
        /\ ops[i].st = "success" /\ ops[i].scheduled
        /\ ops[j].st = "error" /\ ops[j].scheduled

\* A failed while B, started during A on another task, had been applied, and
\* no refresh has succeeded since A's failure; A and B are the only mutations
Overlapped(a, b) ==
    /\ Len(ops) = 2
    /\ a \in ops[b].inFlightAtStart
    /\ Target(ops[a]) # Target(ops[b])
    /\ ops[a].st = "error"
    /\ ops[a].refreshed # "success"

\* C8: when A fails after B (on another task) was applied during A's
\* flight, A's rollback installs exactly A's snapshot, and B's change is
\* absent from the data from then until a refresh succeeds.
C8_OverlappingRollback ==
    \A a, b \in 1..Len(ops) :
        Overlapped(a, b) =>
            /\ ops[a].rolledBack = <<ops[a].previousTasks>>
            /\ ~ChangePresent(ops[b], collection)

C8_Witness ==
    \E a, b \in 1..Len(ops) :
        /\ Overlapped(a, b)
        /\ ops[b].st = "success"
        /\ ops[b].applied # ops[b].before
        /\ ChangePresent(ops[b], getTasks)
        /\ ~ChangePresent(ops[b], collection)

\* C9 as stated: in every state, failed refreshes included, the data differs
\* from the server's list only while something is in flight; once mutations
\* have run and neither a mutation nor a fetch is in flight, they are equal.
C9_NoUnaccountedDifference ==
    (Len(ops) >= 1 /\ Quiescent) => collection = getTasks

\* C9 as amended: whenever no mutation and no fetch is in flight and the
\* last fetch succeeded, the data is the server's list, whatever failed
\* before.
C9_ConsistentWhenQuiet ==
    (Quiescent /\ query.status = "success") => collection = getTasks

C9_Witness ==
    /\ Quiescent
    /\ query.status = "success"
    /\ collection = getTasks
    /\ \E i, j \in 1..Len(ops) :
         /\ ops[i].st = "error"
         /\ ops[j].st = "success"
         /\ ops[i].refreshed = "success"

\* C10: a step in which the fetch of the task list fails leaves the data,
\* the mutations (none rolled back, none started) and the server as they are.
C10_RefreshFailureSoft ==
    [][(query.phase # "idle" /\ query'.phase = "idle" /\ query'.status = "error")
       => /\ collection' = collection
          /\ server' = server
          /\ Len(ops') = Len(ops)
          /\ \A i \in 1..Len(ops) :
               /\ ops'[i].st = ops[i].st
               /\ ops'[i].rolledBack = ops[i].rolledBack]_vars

C10_Witness ==
    /\ query.phase = "idle"
    /\ query.status = "error"
    /\ \E i \in 1..Len(ops) :
         /\ ops[i].kind = "create"
         /\ ops[i].st = "success"
         /\ ops[i].refreshed = "error"
         /\ collection = ops[i].applied

---------------------------------------------------------------------------
(* Properties of the forms, the activity log, the sessions and the pure
   functions *)

\* form values the forms must turn down: no title once trimmed, or a due
\* date that is given and is no date
Malformed(values) ==
    \/ Trim(values.title) = <<>>
    \/ values.dueDate # "" /\ ~IsDate(values.dueDate)

C12_SuccessInvalidatesActivity ==
    [][\A i \in 1..Len(ops) :
         (ops[i].st # "success" /\ ops'[i].st = "success")
         => activityInvalidations' > activityInvalidations]_vars

C12_Witness ==
    \E i, j \in 1..Len(ops) :
        /\ ops[i].kind \in {"create", "delete"}
        /\ ops[j].kind \in {"update", "toggle"}
        /\ ops[i].st = "success"
        /\ ops[j].st = "success"
        /\ activityInvalidations = 2

\* C13 as stated: the step in which a mutation fails and is rolled back
\* does not invalidate the activity log.
C13_NoInvalidationOnFailure ==
    [][\A i \in 1..Len(ops) :
         (ops[i].st # "error" /\ ops'[i].st = "error")
         => activityInvalidations' = activityInvalidations]_vars

\* C13 as amended: the activity log is invalidated at the settlement of a
\* mutation and at no other moment, once for every settled mutation,
\* whether it succeeded or failed.
C13_InvalidatedAtEverySettlement ==
    activityInvalidations = Cardinality({i \in 1..Len(ops) : ops[i].st \in Settled})

C13_Witness ==
    /\ Len(ops) = 2
    /\ ops[1].st = "error"
    /\ ops[1].rolledBack = <<ops[1].before>>
    /\ ops[2].st \in InFlight
    /\ activityInvalidations = 1

\* C14: the data a session starts with, before its own list arrives, holds
\* no task the cache held when the session before it ended.
C14_SessionIsolation ==
    [][(token = NULL /\ token' # NULL) => Ids(collection') \cap Ids(collection) = {}]_vars

\* C15: the optimistic apply of a toggle changes exactly one task, the one
\* with the toggled id, at its place, and of it the completed flag alone.
C15_ToggleFrame ==
    \A i \in 1..Len(ops) :
        ops[i].kind = "toggle" =>
            LET b == ops[i].before
                a == ops[i].applied
            IN
            /\ Len(a) = Len(b)
            /\ Cardinality({k \in 1..Len(b) : a[k] # b[k]}) = 1
            /\ \A k \in 1..Len(b) :
                 a[k] # b[k] =>
                    /\ b[k].id = ops[i].variables.id
                    /\ a[k] = [b[k] EXCEPT !.completed = ~b[k].completed]

\* a task of the data has a title similar to the one submitted
HasSimilar(values, tasks) ==
    \E k \in 1..Len(tasks) : areTitlesSimilar(values.title, tasks[k].title)

\* C16: a create submit that finds a similar task applies nothing and sends
\* nothing, it holds the values back; "create anyway" starts a create with
\* exactly the values held back, similar tasks or not; cancelling the warning
\* starts no create and leaves the data as it is.
C16_DuplicateCheckAdvisory ==
    [][/\ (/\ call'.fn = "handleCreateSubmit"
           /\ ~Malformed(call'.values)
           /\ HasSimilar(call'.values, collection))
          => /\ collection' = collection
             /\ ops' = ops
             /\ pendingCreateValues' = <<call'.values>>
       /\ (call'.fn = "handleCreateAnyway" /\ pendingCreateValues # <<>>)
          => /\ Len(ops') = Len(ops) + 1
             /\ ops'[Len(ops')].kind = "create"
             /\ ops'[Len(ops')].st = "sent"
             /\ ops'[Len(ops')].variables = pendingCreateValues[1]
             /\ Len(collection') = Len(collection) + 1
             /\ collection'[Len(collection')].title = pendingCreateValues[1].title
       /\ call'.fn = "handleCancelDuplicateWarning"
          => /\ collection' = collection
             /\ ops' = ops
             /\ pendingCreateValues' = <<>>]_vars

C16_Witness ==
    /\ call.fn = "handleCreateAnyway"
    /\ call.values # <<>>
    /\ Len(ops) >= 1
    /\ ops[Len(ops)].kind = "create"
    /\ ops[Len(ops)].st = "sent"
    /\ ops[Len(ops)].variables = call.values[1]
    /\ HasSimilar(call.values[1], ops[Len(ops)].before)
    /\ collection = ops[Len(ops)].applied

\* the words of a list joined by single spaces
RECURSIVE Join(_)
Join(ws) ==
    IF ws = <<>> THEN <<>>
    ELSE IF Len(ws) = 1 THEN ws[1]
    ELSE ws[1] \o <<" ">> \o Join(Tail(ws))

\* the normal form of a title: lowercase, no space at either end, one space
\* between two words
Normal(s) == Join(Words(toLowerCase(s)))

WordSet(s) == {Words(s)[k] : k \in 1..Len(Words(s))}

\* one of two strings is part of the other
Contained(a, b) == includes(a, b) \/ includes(b, a)

\* a call of areTitlesSimilar that has returned
SimilarityReturned == call.fn = "areTitlesSimilar" /\ call.result # <<>>

\* C17: areTitlesSimilar(x, y) is areTitlesSimilar of the normal forms of x
\* and y; two titles with the same, non-empty normal form are similar; two
\* titles whose normal forms share no word and are not part of one another
\* are not.
C17_SimilarityOnNormalForms ==
    SimilarityReturned =>
        LET nx == Normal(call.newTitle)
            ny == Normal(call.existingTitle)
        IN
        /\ call.result[1] = areTitlesSimilar(nx, ny)
        /\ (nx = ny /\ nx # <<>>) => call.result[1]
        /\ (WordSet(nx) \cap WordSet(ny) = {} /\ ~Contained(nx, ny)) => ~call.result[1]

C17_Witness ==
    /\ SimilarityReturned
    /\ call.newTitle = <<"A", " ", " ", "b">>
    /\ call.existingTitle = <<" ", "a", " ", "b">>
    /\ call.result = <<TRUE>>

\* C18: two normal forms that are neither equal nor part of one another are
\* similar exactly when the words common to both, counted once each, are at
\* least 0.6 of the smaller of the two counts of distinct words.
C18_WordSets ==
    SimilarityReturned =>
        LET nx == Normal(call.newTitle)
            ny == Normal(call.existingTitle)
            common == Cardinality(WordSet(nx) \cap WordSet(ny))
            smaller == Min(Cardinality(WordSet(nx)), Cardinality(WordSet(ny)))
        IN
        (nx # ny /\ ~Contained(nx, ny)) =>
            (call.result[1] <=>
               (smaller > 0 /\ 10 * common >= SIMILARITY_WORD_OVERLAP_THRESHOLD * smaller))

\* a call of groupUrgentTasks that has returned
GroupsReturned == call.fn = "groupUrgentTasks" /\ call.result # <<>>

\* the groups of a result a task is in
GroupsOf(result, task) ==
    { result[g].group : g \in { g \in 1..Len(result) :
                                  \E k \in 1..Len(result[g].tasks) : result[g].tasks[k] = task } }

\* C19: an incomplete task due more than 48 hours after the instant of the
\* call is in none of the groups.
C19_FarOffUngrouped ==
    GroupsReturned =>
        \A k \in 1..Len(call.tasks) :
            LET task == call.tasks[k] IN
            (/\ ~task.completed
             /\ task.dueDate # <<>>
             /\ task.dueDate[1] > call.now + 48)
            => GroupsOf(call.result[1], task) = {}

\* C20: a completed task and a task without a due date are in no group; an
\* incomplete task due before the start of the day of the call is in overdue
\* alone, one due within that day in dueToday alone, one due after that day
\* and at most 48 hours after the call in dueSoon alone; no task is in more
\* than one group.
C20_GroupsClassify ==
    GroupsReturned =>
        \A k \in 1..Len(call.tasks) :
            LET task == call.tasks[k]
                groups == GroupsOf(call.result[1], task)
                dayStart == call.now - (call.now % 24)
                dayEnd == dayStart + 23
                due == task.dueDate[1]
            IN
            /\ Cardinality(groups) <= 1
            /\ (task.completed \/ task.dueDate = <<>>) => groups = {}
            /\ (~task.completed /\ task.dueDate # <<>>) =>
                 /\ due < dayStart => groups = {"overdue"}
                 /\ (dayStart <= due /\ due <= dayEnd) => groups = {"dueToday"}
                 /\ (due > dayEnd /\ due <= call.now + 48) => groups = {"dueSoon"}

C20_Witness ==
    /\ GroupsReturned
    /\ call.now = 37
    /\ Len(call.tasks) = 1
    /\ ~call.tasks[1].completed
    /\ call.tasks[1].dueDate = <<85>>
    /\ call.result[1] = <<[group |-> "dueSoon", tasks |-> call.tasks]>>

---------------------------------------------------------------------------
(* Properties of the derived views, the interceptor and the protocol of a
   mutation *)

\* the auth store as logout leaves it
LoggedOut == token = NULL /\ user = NULL /\ ~isAuthenticated

\* C23: a step in which the interceptor is handed a 401 ends with the auth
\* store logged out, unless the 401 comes from the change-password endpoint
\* with the message 'Current password is incorrect': then the auth store is
\* left as it is.
C23_LogoutOn401 ==
    [][(call'.fn = "onResponseError" /\ call'.response.status = 401)
       => IF /\ call'.response.url = "/api/auth/change-password"
             /\ call'.response.message = "Current password is incorrect"
          THEN <<token, user, isAuthenticated>>' = <<token, user, isAuthenticated>>
          ELSE LoggedOut']_vars

\* a call of taskSummary that has returned
SummaryReturned == call.fn = "taskSummary" /\ call.result # <<>>

\* C21: the overdue count of the summary is the number of tasks that are not
\* completed, have a due date, and are due strictly before the start of the
\* day of the call.
C21_OverdueCount ==
    SummaryReturned =>
        LET dayStart == call.now - (call.now % 24) IN
        call.result[1].overdue =
            Cardinality({k \in 1..Len(call.tasks) :
                           /\ ~call.tasks[k].completed
                           /\ call.tasks[k].dueDate # <<>>
                           /\ call.tasks[k].dueDate[1] < dayStart})

\* three tasks: one incomplete due yesterday, one incomplete without a due
\* date, one completed due yesterday; one is overdue
C21_Witness ==
    /\ SummaryReturned
    /\ call.now = 37
    /\ call.tasks = <<[id |-> 1, completed |-> FALSE, dueDate |-> <<23>>],
                      [id |-> 1, completed |-> FALSE, dueDate |-> <<>>],
                      [id |-> 1, completed |-> TRUE, dueDate |-> <<23>>]>>
    /\ call.result[1].overdue = 1

C25_ProtocolOrder ==
    [][Len(ops') = Len(ops) + 1 =>
         LET op == ops'[Len(ops')] IN
         /\ op.previousTasks = collection
         /\ op.st = "sent"
         /\ collection' = op.applied
         /\ server' = server]_vars

C25_Witness ==
    \E i, j \in 1..Len(ops) :
        /\ ops[i].kind = "create" /\ ops[j].kind = "delete"
        /\ \A k \in {i, j} :
             /\ ops[k].st = "sent"
             /\ ops[k].applied # ops[k].before
             /\ ops[k].previousTasks = ops[k].before
        /\ collection = ops[2].applied

\* C26: the optimistic apply of a create leaves the data as it was, same
\* order, followed by one new task: not completed, with the title, the
\* priority, the description and the due date submitted, an empty
\* description and an empty due date turned into null.
C26_CreateAppends ==
    \A i \in 1..Len(ops) :
        ops[i].kind = "create" =>
            LET values == ops[i].variables
                a == ops[i].applied
                t == a[Len(a)]
            IN
            /\ Len(a) = Len(ops[i].before) + 1
            /\ SubSeq(a, 1, Len(a) - 1) = ops[i].before
            /\ t.completed = FALSE
            /\ t.title = values.title
            /\ t.priority = values.priority
            /\ t.description = (IF values.description = "" THEN NULL ELSE values.description)
            /\ t.dueDate = (IF values.dueDate = "" THEN NULL ELSE values.dueDate)

C26_Witness ==
    \E i, j \in 1..Len(ops) :
        /\ ops[i].kind = "create" /\ ops[j].kind = "create"
        /\ ops[i].variables.description = "" /\ ops[i].variables.dueDate = ""
        /\ ops[j].variables.description = "d" /\ ops[j].variables.dueDate = "2024-01-10"
        /\ ops[i].before # <<>> /\ ops[j].before # <<>>
        /\ ops[i].applied[Len(ops[i].applied)].description = NULL
        /\ ops[j].applied[Len(ops[j].applied)].dueDate = "2024-01-10"

\* C27: the optimistic apply of an update changes the tasks with the given
\* id alone, and of them the fields the values carry alone; that of a delete
\* leaves the data without the tasks of that id, the others in their order;
\* for an id the data does not hold, both leave the data as it is.
C27_UpdateDeleteFrame ==
    \A i \in 1..Len(ops) :
        LET b == ops[i].before
            a == ops[i].applied
            id == ops[i].variables.id
        IN
        /\ ops[i].kind = "update" =>
             /\ Len(a) = Len(b)
             /\ \A k \in 1..Len(b) :
                  /\ a[k].id = b[k].id
                  /\ a[k].createdAt = b[k].createdAt
                  /\ b[k].id # id => a[k] = b[k]
                  /\ \A f \in {"title", "description", "completed", "priority", "dueDate"} :
                       ~Has(ops[i].variables.values, f) => a[k][f] = b[k][f]
        /\ ops[i].kind = "delete" =>
             a = SelectSeq(b, LAMBDA t : t.id # id)
        /\ (ops[i].kind \in {"update", "delete"} /\ id \notin Ids(b)) => a = b

C27_Witness ==
    /\ Len(ops) = 2
    /\ ops[1].kind = "delete"
    /\ Len(ops[1].before) = 2
    /\ Len(ops[1].applied) = 1
    /\ ops[2].kind = "update"
    /\ ops[2].variables.id \notin Ids(ops[2].before)
    /\ ops[2].applied = ops[2].before

\* the mutation started last is in flight and no mutation has settled since
\* it started
Undisturbed(n) ==
    /\ ops[n].st \in InFlight
    /\ \A j \in 1..Len(ops) : ops[j].st \in Settled => j \notin ops[n].inFlightAtStart

\* C28: a fetch of the task list in flight when a mutation starts is
\* cancelled: as long as nothing has settled since, no fetch is in flight and
\* the data is the optimistic state of that mutation.
C28_EarlierFetchCancelled ==
    Len(ops) >= 1 =>
        (Undisturbed(Len(ops)) =>
            /\ query.phase = "idle"
            /\ collection = ops[Len(ops)].applied)

C28_Witness ==
    /\ Len(ops) = 2
    /\ ops[1].st = "success"
    /\ ops[2].fetchAtStart = "got"
    /\ Undisturbed(2)
    /\ query.phase = "idle"
    /\ collection = ops[2].applied
    /\ collection # getTasks

\* C29: the completed flag a toggle shows for its task right after its
\* optimistic apply is the completed flag its request carries.
C29_ShownIsSent ==
    \A i \in 1..Len(ops) :
        ops[i].kind = "toggle" =>
            \A k \in 1..Len(ops[i].applied) :
                ops[i].applied[k].id = ops[i].variables.id
                => ops[i].applied[k].completed = ToggleBody(ops[i].variables).completed

\* C30: as long as every request of the run has succeeded, the task an
\* in-flight create has appended, which no other mutation is about, is in
\* the data, under its provisional id or under the id the server gave it.
C30_EffectStaysVisible ==
    (/\ \A j \in 1..Len(ops) : ops[j].st \notin {"rejected", "error"}
                               /\ ops[j].refreshed # "error"
     /\ query.status # "error")
    => \A i \in 1..Len(ops) :
         (/\ ops[i].kind = "create" /\ ops[i].st \in InFlight
          /\ \A j \in 1..Len(ops) : j # i => Target(ops[j]) # Target(ops[i])) =>
            \/ Target(ops[i]) \in Ids(collection)
            \/ ops[i].st = "ok" /\ ops[i].response[1].id \in Ids(collection)

====
